---- MODULE Spec2Model ----
(***************************************************************************)
(* Model of client/commands/v2/server_connection.py:                      *)
(*   get_socket_path       - socket path derived from the log directory   *)
(*   connect               - scoped Unix-socket connection, binary mode   *)
(*   connect_in_text_mode  - the same, wrapped in line-buffered text I/O  *)
(*                                                                         *)
(* The library objects the code builds (socket.socket, SocketIO,          *)
(* BufferedReader/BufferedWriter from makefile, io.TextIOWrapper,         *)
(* pathlib.Path.resolve, the contextlib generator protocol) are modelled  *)
(* by what CPython does for exactly the calls the source makes.           *)
(***************************************************************************)
EXTENDS Naturals, Sequences, FiniteSets

(***************************************************************************)
(* Bounds of the model.                                                    *)
(***************************************************************************)
\* Number of write calls the with-body performs.
MaxWrites == 3
\* Number of components of the log_directory argument.
MaxDepth == 2
\* Number of calls of get_socket_path with the same arguments.
MaxCalls == 2
\* io.TextIOWrapper's chunk size (8192 in CPython), scaled down.
ChunkSize == 3
\* Buffer size of the BufferedWriter made by makefile("wb")
\* (io.DEFAULT_BUFFER_SIZE, 8192), scaled down.
BufSize == 3

VARIABLES
    pc,           \* position of the call: setup step, body, teardown step, done
    mode,         \* "binary": connect was called; "text": connect_in_text_mode
    fd,           \* OS handle of client_socket: "none", "open", "released"
    sockClosed,   \* socket.socket._closed
    ioRefs,       \* socket.socket._io_refs: SocketIO objects still open
    releases,     \* how many times the OS handle has been released
    inCh,         \* input_channel (BufferedReader over SocketIO): none/open/closed
    outCh,        \* output_channel (BufferedWriter over SocketIO): none/open/closed
    wrapped,      \* TRUE once the two TextIOWrapper objects exist
    textPending,  \* TextIOWrapper.pending_bytes of the text output stream
    bufPending,   \* bytes sitting in the BufferedWriter's buffer
    handed,       \* bytes passed to send() on the open socket, in order
    delivered,    \* bytes the peer can observe, in order
    peerOpen,     \* the server side of the connection is still open
    exc,          \* exception in flight: "none", "SetupError", "BodyError", "CloseError"
    result,       \* what the caller of the with-block sees: "none", "ok" or an exception
    written,      \* history: bytes of all writes of the body that returned
    tail,         \* history: bytes written since the last newline write / flush
    nWrites,      \* history: number of write calls made by the body
    bodyRan,      \* history: the with-body started
    bodyRaised,   \* history: the with-body raised
    bodyClosed,   \* history: streams the body closed itself
    closeFailed,  \* history: a close step of the teardown raised
    closeOrder,   \* history: teardown steps in the order they ran
    args,         \* get_socket_path: the (root, log_directory) the caller passes
    fs,           \* get_socket_path: directories and symlinks on disk
    calls         \* get_socket_path: history of calls and their results

connVars == <<pc, mode, fd, sockClosed, ioRefs, releases, inCh, outCh, wrapped,
              textPending, bufPending, handed, delivered, peerOpen, exc, result,
              written, tail, nWrites, bodyRan, bodyRaised, bodyClosed,
              closeFailed, closeOrder>>
pathVars == <<args, fs, calls>>
vars == <<connVars, pathVars>>

(***************************************************************************)
(* Text and bytes.  Text is a sequence of characters, bytes a sequence of  *)
(* numbers; str.encode("utf-8") maps one to the other.                     *)
(***************************************************************************)
LF == "\n"
CR == "\r"
EAcute == "e'"   \* U+00E9, two bytes in UTF-8

Utf8(c) ==
    CASE c = "x"    -> <<120>>
      [] c = LF     -> <<10>>
      [] c = CR     -> <<13>>
      [] c = EAcute -> <<195, 169>>
      [] c = "/"    -> <<47>>
      [] c = "."    -> <<46>>
      [] c = "a"    -> <<97>>
      [] c = "l"    -> <<108>>

RECURSIVE Encode(_)
Encode(text) ==
    IF text = <<>> THEN <<>> ELSE Utf8(Head(text)) \o Encode(Tail(text))

\* The strings the body writes (as str in text mode, encoded in binary mode).
TextChunks == { <<"x">>, <<"x", "x">>, <<LF>>, <<"x", LF>>, <<LF, "x">>, <<CR>>,
                <<EAcute, EAcute>> }

HasChar(text, c) == \E i \in 1..Len(text) : text[i] = c

(***************************************************************************)
(* The output pipeline  TextIOWrapper -> BufferedWriter -> SocketIO.       *)
(* A pipeline value p is a record                                          *)
(*   [text, buf, handed, delivered, ok]                                    *)
(* ok = FALSE means the operation raised (OSError from send); later steps  *)
(* of the same operation are then skipped.                                 *)
(***************************************************************************)
Pipe == [text |-> textPending, buf |-> bufPending, handed |-> handed,
         delivered |-> delivered, ok |-> TRUE]

\* SocketIO.write -> socket.send: the bytes are handed to the socket; the
\* peer observes them unless it has gone away, in which case send raises.
SockSend(p, data) ==
    IF ~p.ok \/ data = <<>> THEN p
    ELSE [p EXCEPT !.handed = @ \o data,
                   !.delivered = IF peerOpen THEN @ \o data ELSE @,
                   !.ok = peerOpen]

\* BufferedWriter.flush: write the buffer to the raw stream.
BufFlush(p) ==
    IF ~p.ok \/ p.buf = <<>> THEN p
    ELSE LET s == SockSend(p, p.buf)
         IN  IF s.ok THEN [s EXCEPT !.buf = <<>>] ELSE s

\* BufferedWriter.write: copy into the buffer when it fits; otherwise flush
\* the buffer, send data larger than the buffer directly, buffer the rest.
BufWrite(p, data) ==
    IF ~p.ok THEN p
    ELSE IF Len(data) <= BufSize - Len(p.buf)
         THEN [p EXCEPT !.buf = @ \o data]
    ELSE LET f == BufFlush(p)
         IN  IF ~f.ok THEN f
             ELSE IF Len(data) > BufSize THEN SockSend(f, data)
             ELSE [f EXCEPT !.buf = data]

\* TextIOWrapper's internal write-flush: pending bytes go to buffer.write.
TextWriteFlush(p) ==
    IF ~p.ok \/ p.text = <<>> THEN p
    ELSE BufWrite([p EXCEPT !.text = <<>>], p.text)

\* (variant: line_buffering left off)
NoLineBuffering(text) == FALSE

\* line_buffering=True: a write holding "\n" or "\r" is flushed through.
NeedFlush(text) == HasChar(text, LF) \/ HasChar(text, CR)

\* TextIOWrapper.write(text) with encoding="utf-8", line_buffering=True.
TextWrite(p, text) ==
    LET b  == Encode(text)
        p1 == IF p.text # <<>> /\ Len(p.text) + Len(b) > ChunkSize
              THEN TextWriteFlush(p) ELSE p
        p2 == IF p1.ok THEN [p1 EXCEPT !.text = @ \o b] ELSE p1
        p3 == IF Len(p2.text) >= ChunkSize \/ NeedFlush(text)
              THEN TextWriteFlush(p2) ELSE p2
    IN  IF NeedFlush(text) THEN BufFlush(p3) ELSE p3

\* TextIOWrapper.flush: write-flush, then buffer.flush().
TextFlush(p) == BufFlush(TextWriteFlush(p))

\* (variant: close without flushing)
BufCloseNoFlush(p) == [p EXCEPT !.buf = <<>>]

\* BufferedWriter.close: flush, then close the raw stream whatever the flush
\* did; the buffer goes away with the object.
BufCloseData(p) == [BufFlush(p) EXCEPT !.buf = <<>>]

\* TextIOWrapper.close: flush, then buffer.close() whatever the flush did
\* (buffer.close flushes again; a failed flush fails again).
TextCloseData(p) ==
    LET f == TextFlush(p)
        g == BufCloseData([f EXCEPT !.ok = TRUE])
    IN  [g EXCEPT !.ok = f.ok /\ g.ok, !.text = <<>>]

\* The pipeline after an operation becomes the new state of the streams.
Store(p) ==
    /\ textPending' = p.text
    /\ bufPending' = p.buf
    /\ handed' = p.handed
    /\ delivered' = p.delivered

(***************************************************************************)
(* The socket object.  A socket value s is a record                        *)
(*   [fd, closed, refs, releases].                                         *)
(***************************************************************************)
Sock == [fd |-> fd, closed |-> sockClosed, refs |-> ioRefs, releases |-> releases]

\* socket._real_close: the OS handle is released, once.
RealClose(s) ==
    IF s.fd = "open" THEN [s EXCEPT !.fd = "released", !.releases = @ + 1] ELSE s

\* socket.close: mark closed; release the handle when no SocketIO is left.
SocketClose(s) ==
    LET c == [s EXCEPT !.closed = TRUE]
    IN  IF c.refs <= 0 THEN RealClose(c) ELSE c

\* (variant: the handle goes as soon as no SocketIO is left)
DecrefReleasing(s) ==
    LET r == IF s.refs > 0 THEN [s EXCEPT !.refs = @ - 1] ELSE s
    IN  IF r.closed \/ r.refs = 0 THEN SocketClose(r) ELSE r

\* socket._decref_socketios, called when a SocketIO (the raw stream under a
\* makefile stream) is closed.
DecrefSocketIOs(s) ==
    LET r == IF s.refs > 0 THEN [s EXCEPT !.refs = @ - 1] ELSE s
    IN  IF r.closed THEN SocketClose(r) ELSE r

\* socket.makefile: one more SocketIO refers to the socket.
MakefileRef(s) == [s EXCEPT !.refs = @ + 1]

\* socket.__exit__: close unless already closed.
SocketExit(s) == IF s.closed THEN s ELSE SocketClose(s)

StoreSock(s) ==
    /\ fd' = s.fd
    /\ sockClosed' = s.closed
    /\ ioRefs' = s.refs
    /\ releases' = s.releases

streamVars == <<textPending, bufPending, handed, delivered>>
sockVars == <<fd, sockClosed, ioRefs, releases>>
histVars == <<written, tail, nWrites, bodyRan, bodyRaised, bodyClosed,
              closeFailed, closeOrder>>

(***************************************************************************)
(* Setup: the prefix of connect up to the yield (lines 47-52), and the     *)
(* wrapping done by connect_in_text_mode (lines 69-73).                    *)
(***************************************************************************)
\* Line 47: socket.socket(AF_UNIX, SOCK_STREAM).  On failure nothing was
\* opened and the error leaves the call at once.
CreateSocket ==
    /\ pc = "start"
    /\ \/ /\ fd' = "open"
          /\ pc' = "created"
          /\ UNCHANGED <<exc, result>>
       \/ /\ exc' = "SetupError"
          /\ result' = "SetupError"
          /\ pc' = "done"
          /\ UNCHANGED fd
    /\ UNCHANGED <<mode, sockClosed, ioRefs, releases, inCh, outCh, wrapped,
                   streamVars, peerOpen, histVars, pathVars>>

\* Line 48: client_socket.connect(str(socket_path)).  On failure the with
\* statement of line 47 exits the socket.
ConnectSocket ==
    /\ pc = "created"
    /\ \/ /\ pc' = "connected"
          /\ UNCHANGED exc
       \/ /\ exc' = "SetupError"
          /\ pc' = "exit_sock"
    /\ UNCHANGED <<mode, sockVars, inCh, outCh, wrapped, streamVars, peerOpen,
                   result, histVars, pathVars>>

\* Line 49: client_socket.makefile(mode="rb").
MakefileIn ==
    /\ pc = "connected"
    /\ \/ /\ inCh' = "open"
          /\ StoreSock(MakefileRef(Sock))
          /\ pc' = "in_made"
          /\ UNCHANGED exc
       \/ /\ exc' = "SetupError"
          /\ pc' = "exit_sock"
          /\ UNCHANGED <<inCh, sockVars>>
    /\ UNCHANGED <<mode, outCh, wrapped, streamVars, peerOpen, result,
                   histVars, pathVars>>

\* Lines 49-51: client_socket.makefile(mode="wb").  input_channel has been
\* entered already, so on failure (which leads to failTo) it is exited first.
MakefileOutStep(failTo) ==
    /\ pc = "in_made"
    /\ \/ /\ outCh' = "open"
          /\ StoreSock(MakefileRef(Sock))
          /\ pc' = "opened"
          /\ UNCHANGED exc
       \/ /\ exc' = "SetupError"
          /\ pc' = failTo
          /\ UNCHANGED <<outCh, sockVars>>
    /\ UNCHANGED <<mode, inCh, wrapped, streamVars, peerOpen, result,
                   histVars, pathVars>>

MakefileOutLeavingInput == MakefileOutStep("exit_sock")
MakefileOut == MakefileOutStep("exit_in")

\* Line 52: connect yields the two binary streams to its with-body.
Yield ==
    /\ pc = "opened"
    /\ mode = "binary"
    /\ pc' = "body"
    /\ bodyRan' = TRUE
    /\ UNCHANGED <<mode, sockVars, inCh, outCh, wrapped, streamVars, peerOpen,
                   exc, result, written, tail, nWrites, bodyRaised, bodyClosed,
                   closeFailed, closeOrder, pathVars>>

\* Lines 69-73: connect_in_text_mode receives the binary streams, wraps
\* each in a TextIOWrapper and yields the wrappers to its with-body.
YieldText ==
    /\ pc = "opened"
    /\ mode = "text"
    /\ wrapped' = TRUE
    /\ pc' = "body"
    /\ bodyRan' = TRUE
    /\ UNCHANGED <<mode, sockVars, inCh, outCh, streamVars, peerOpen,
                   exc, result, written, tail, nWrites, bodyRaised, bodyClosed,
                   closeFailed, closeOrder, pathVars>>

(***************************************************************************)
(* The with-body.  It is the caller's code, run while connect (or          *)
(* connect_in_text_mode) is suspended at its yield; it may write, flush,   *)
(* close the streams it was given, raise, or finish.  An I/O call that     *)
(* raises is taken to end the body with that error.                        *)
(***************************************************************************)
WriteOp(p, t) == IF mode = "text" THEN TextWrite(p, t) ELSE BufWrite(p, Encode(t))
FlushOp(p) == IF mode = "text" THEN TextFlush(p) ELSE BufFlush(p)
CloseOp(p) == IF mode = "text" THEN TextCloseData(p) ELSE BufCloseData(p)
\* A write after which nothing of what was written is left unflushed.
FlushesThrough(t) == mode = "text" /\ (HasChar(t, LF) \/ HasChar(t, CR))

\* The body goes on, or the error of a failed call propagates out of it.
BodyOutcome(ok) ==
    /\ pc' = IF ok THEN "body" ELSE "exit_out"
    /\ exc' = IF ok THEN exc ELSE "BodyError"
    /\ bodyRaised' = (bodyRaised \/ ~ok)

\* output.write(t): bytes in binary mode, str in text mode.  Writing to a
\* closed stream raises ValueError.
BodyWrite ==
    /\ pc = "body"
    /\ nWrites < MaxWrites
    /\ \E t \in TextChunks :
          IF outCh = "open"
          THEN LET p == WriteOp(Pipe, t)
               IN  /\ Store(p)
                   /\ BodyOutcome(p.ok)
                   /\ written' = IF p.ok THEN written \o Encode(t) ELSE written
                   /\ tail' = IF ~p.ok THEN tail
                              ELSE IF FlushesThrough(t) THEN <<>>
                              ELSE tail \o Encode(t)
          ELSE /\ BodyOutcome(FALSE)
               /\ UNCHANGED <<streamVars, written, tail>>
    /\ nWrites' = nWrites + 1
    /\ UNCHANGED <<mode, sockVars, inCh, outCh, wrapped, peerOpen, result,
                   bodyRan, bodyClosed, closeFailed, closeOrder, pathVars>>

\* output.flush().
BodyFlush ==
    /\ pc = "body"
    /\ outCh = "open"
    /\ LET p == FlushOp(Pipe)
       IN  /\ Store(p)
           /\ BodyOutcome(p.ok)
           /\ tail' = IF p.ok THEN <<>> ELSE tail
    /\ UNCHANGED <<mode, sockVars, inCh, outCh, wrapped, peerOpen, result,
                   written, nWrites, bodyRan, bodyClosed, closeFailed,
                   closeOrder, pathVars>>

\* output.close() in the body.  closesBinary: closing the stream the body
\* holds closes the raw SocketIO under it (for a TextIOWrapper: through
\* buffer.close()).
BodyCloseOutStep(closesBinary) ==
    /\ pc = "body"
    /\ outCh = "open"
    /\ LET p == CloseOp(Pipe)
       IN  /\ Store(p)
           /\ BodyOutcome(p.ok)
    /\ IF closesBinary
       THEN outCh' = "closed" /\ StoreSock(DecrefSocketIOs(Sock))
       ELSE UNCHANGED <<outCh, sockVars>>
    /\ bodyClosed' = bodyClosed \cup {"out"}
    /\ tail' = <<>>
    /\ UNCHANGED <<mode, inCh, wrapped, peerOpen, result, written, nWrites,
                   bodyRan, closeFailed, closeOrder, pathVars>>

BodyCloseOutDetached == BodyCloseOutStep(mode # "text")
BodyCloseOut == BodyCloseOutStep(TRUE)

\* input.close() in the body.
BodyCloseIn ==
    /\ pc = "body"
    /\ inCh = "open"
    /\ inCh' = "closed"
    /\ StoreSock(DecrefSocketIOs(Sock))
    /\ bodyClosed' = bodyClosed \cup {"in"}
    /\ UNCHANGED <<pc, mode, outCh, wrapped, streamVars, peerOpen, exc, result,
                   written, tail, nWrites, bodyRan, bodyRaised, closeFailed,
                   closeOrder, pathVars>>

\* The body raises an error of its own.
BodyRaise ==
    /\ pc = "body"
    /\ BodyOutcome(FALSE)
    /\ UNCHANGED <<mode, sockVars, inCh, outCh, wrapped, streamVars, peerOpen,
                   result, written, tail, nWrites, bodyRan, bodyClosed,
                   closeFailed, closeOrder, pathVars>>

\* The body finishes normally.
BodyReturn ==
    /\ pc = "body"
    /\ pc' = "exit_out"
    /\ UNCHANGED <<mode, sockVars, inCh, outCh, wrapped, streamVars, peerOpen,
                   exc, result, histVars, pathVars>>

\* The server closes its end of the connection while the body runs.
PeerClose ==
    /\ pc = "body"
    /\ peerOpen
    /\ peerOpen' = FALSE
    /\ UNCHANGED <<pc, mode, sockVars, inCh, outCh, wrapped, streamVars,
                   exc, result, histVars, pathVars>>

(***************************************************************************)
(* Teardown: the with statements of lines 47-51 unwind, innermost first.   *)
(* An exception raised by an __exit__ replaces the one in flight.          *)
(***************************************************************************)
\* output_channel.__exit__ -> BufferedWriter.close(): nothing if already
\* closed; else flush, then close the raw stream whatever the flush did.
ExitOut ==
    /\ pc = "exit_out"
    /\ IF outCh = "open"
       THEN LET p == BufCloseData(Pipe)
            IN  /\ Store(p)
                /\ outCh' = "closed"
                /\ StoreSock(DecrefSocketIOs(Sock))
                /\ exc' = IF p.ok THEN exc ELSE "CloseError"
                /\ closeFailed' = (closeFailed \/ ~p.ok)
       ELSE UNCHANGED <<streamVars, outCh, sockVars, exc, closeFailed>>
    /\ closeOrder' = Append(closeOrder, "output")
    /\ pc' = "exit_in"
    /\ UNCHANGED <<mode, inCh, wrapped, peerOpen, result, written, tail,
                   nWrites, bodyRan, bodyRaised, bodyClosed, pathVars>>

\* input_channel.__exit__ -> BufferedReader.close().
ExitInStep(closeIt) ==
    /\ pc = "exit_in"
    /\ IF inCh = "open" /\ closeIt
       THEN inCh' = "closed" /\ StoreSock(DecrefSocketIOs(Sock))
       ELSE UNCHANGED <<inCh, sockVars>>
    /\ closeOrder' = Append(closeOrder, "input")
    /\ pc' = "exit_sock"
    /\ UNCHANGED <<mode, outCh, wrapped, streamVars, peerOpen, exc, result,
                   written, tail, nWrites, bodyRan, bodyRaised, bodyClosed,
                   closeFailed, pathVars>>

ExitInUnlessFailed == ExitInStep(~closeFailed)
ExitIn == ExitInStep(TRUE)

\* client_socket.__exit__, after which the call is over: the generator
\* finishes, or the exception in flight reaches the caller of the with-block.
ExitSockStep(closeIt) ==
    /\ pc = "exit_sock"
    /\ IF closeIt THEN StoreSock(SocketExit(Sock)) ELSE UNCHANGED sockVars
    /\ closeOrder' = Append(closeOrder, "socket")
    /\ pc' = "done"
    /\ result' = IF exc = "none" THEN "ok" ELSE exc
    /\ UNCHANGED <<mode, inCh, outCh, wrapped, streamVars, peerOpen, exc,
                   written, tail, nWrites, bodyRan, bodyRaised, bodyClosed,
                   closeFailed, pathVars>>

ExitSockOnSuccessOnly == ExitSockStep(exc = "none")
ExitSock == ExitSockStep(TRUE)

(***************************************************************************)
(* get_socket_path (lines 14-26).                                          *)
(*                                                                         *)
(* A path is a sequence of names below "/"; log_directory may be relative  *)
(* to the working directory.  The disk holds real directories (fs.dirs)    *)
(* and at most one symbolic link, /l (fs.link is its target, <<>> when     *)
(* there is none).                                                         *)
(***************************************************************************)
Cwd == <<"a">>
Names == {"a", "l", ".."}
Roots == { <<"t">>, <<"t", "s">> }
LinkTargets == { <<"a">>, <<"a", "a">> }
\* Directories that get created while the program runs.
NewDirs == { <<"a", "a">>, <<"a", "l">>, <<"l">>, <<"l", "a">> }

PartsUpTo(n) == UNION { [1..k -> Names] : k \in 1..n }
LogDirs == [abs : BOOLEAN, parts : PartsUpTo(MaxDepth)]

IsLink(path, f) == path = <<"l">> /\ f.link # <<>>
Prefixes(path) == { SubSeq(path, 1, k) : k \in 1..Len(path) }

\* os.path.realpath(strict=False), as used by Path.resolve: walk the
\* components; ".." drops the last component of what is resolved so far; a
\* symbolic link is replaced by its resolved target; anything else, on disk
\* or not, is kept as given.
RECURSIVE JoinRealPath(_, _, _)
JoinRealPath(path, rest, f) ==
    IF rest = <<>> THEN path
    ELSE LET name == Head(rest)
             newpath == Append(path, name)
         IN  IF name = ".."
             THEN JoinRealPath(IF path = <<>> THEN <<>>
                               ELSE SubSeq(path, 1, Len(path) - 1), Tail(rest), f)
             ELSE IF IsLink(newpath, f)
             THEN JoinRealPath(JoinRealPath(<<>>, f.link, f), Tail(rest), f)
             ELSE JoinRealPath(newpath, Tail(rest), f)

\* The canonical absolute form of log_directory on disk f.
Canonical(log, f) == JoinRealPath(IF log.abs THEN <<>> ELSE Cwd, log.parts, f)

\* Whether a canonical path is a directory on disk.
OnDisk(path, f) == path = <<>> \/ path \in f.dirs

\* resolve(strict=True) raises when the path is not on disk.
ResolveStrict(log, f) ==
    [ok |-> OnDisk(Canonical(log, f), f), path |-> Canonical(log, f)]

\* Path.resolve(strict=False): never raises for a path that is not on disk.
Resolve(log, f) == [ok |-> TRUE, path |-> Canonical(log, f)]

\* str(path): "/" before every component; "/" alone for the root.
RECURSIVE PathStr(_)
PathStr(path) ==
    IF path = <<>> THEN <<"/">>
    ELSE IF Len(path) = 1 THEN <<"/", path[1]>>
    ELSE PathStr(SubSeq(path, 1, Len(path) - 1)) \o <<"/", path[Len(path)]>>

HexDigit == <<"0", "1", "2", "3", "4", "5", "6", "7",
              "8", "9", "a", "b", "c", "d", "e", "f">>

\* hashlib.md5(...).hexdigest(): a fixed-width lowercase hexadecimal digest of
\* the bytes.  MD5 is stood in for by a 16-bit multiplicative hash, rendered
\* as 4 digits instead of 32.
RECURSIVE HashBytes(_, _)
HashBytes(h, bytes) ==
    IF bytes = <<>> THEN h
    ELSE HashBytes((h * 33 + Head(bytes)) % 65536, Tail(bytes))

HexDigest(bytes) ==
    LET h == HashBytes(5381, bytes)
        digit(n) == HexDigit[(n % 16) + 1]
    IN  << digit(h \div 4096), digit(h \div 256), digit(h \div 16), digit(h) >>

\* The file name f"pyre_server_{digest}.sock".
SocketName(digest) == <<"pyre_server_", digest, ".sock">>

\* get_socket_path(root, log_directory) on disk f; ok = FALSE when it raises.
GetSocketPath(root, log, f) ==
    LET r == Resolve(log, f)
    IN  IF ~r.ok THEN [ok |-> FALSE, path |-> <<>>]
        ELSE [ok |-> TRUE,
              path |-> Append(root, SocketName(HexDigest(Encode(PathStr(r.path)))))]

\* The caller asks for the socket path.
Call ==
    /\ Len(calls) < MaxCalls
    /\ calls' = Append(calls,
                  [onDisk |-> OnDisk(Canonical(args.log, fs), fs),
                   canonical |-> Canonical(args.log, fs),
                   link |-> fs.link,
                   result |-> GetSocketPath(args.root, args.log, fs)])
    /\ UNCHANGED <<args, fs, connVars>>

\* Somebody creates a directory (with its parents).
Mkdir ==
    /\ \E d \in NewDirs :
          /\ d \notin fs.dirs
          /\ ~IsLink(<<d[1]>>, fs)
          /\ fs' = [fs EXCEPT !.dirs = @ \cup Prefixes(d)]
    /\ UNCHANGED <<args, calls, connVars>>

\* Somebody creates the symbolic link /l.
Symlink ==
    /\ fs.link = <<>>
    /\ <<"l">> \notin fs.dirs
    /\ \E t \in LinkTargets : fs' = [fs EXCEPT !.link = t]
    /\ UNCHANGED <<args, calls, connVars>>

(***************************************************************************)
(* One call of connect / connect_in_text_mode.                             *)
(***************************************************************************)
InitConn(m) ==
    /\ pc = "start"
    /\ mode = m
    /\ fd = "none"
    /\ sockClosed = FALSE
    /\ ioRefs = 0
    /\ releases = 0
    /\ inCh = "none"
    /\ outCh = "none"
    /\ wrapped = FALSE
    /\ textPending = <<>>
    /\ bufPending = <<>>
    /\ handed = <<>>
    /\ delivered = <<>>
    /\ peerOpen = TRUE
    /\ exc = "none"
    /\ result = "none"
    /\ written = <<>>
    /\ tail = <<>>
    /\ nWrites = 0
    /\ bodyRan = FALSE
    /\ bodyRaised = FALSE
    /\ bodyClosed = {}
    /\ closeFailed = FALSE
    /\ closeOrder = <<>>

InitFs ==
    /\ args = [root |-> <<"t">>, log |-> [abs |-> TRUE, parts |-> <<"a">>]]
    /\ fs = [dirs |-> {Cwd}, link |-> <<>>]
    /\ calls = <<>>

Init == (\E m \in {"binary", "text"} : InitConn(m)) /\ InitFs

Next ==
    \/ CreateSocket
    \/ ConnectSocket
    \/ MakefileIn
    \/ MakefileOut
    \/ Yield
    \/ YieldText
    \/ BodyWrite
    \/ BodyFlush
    \/ BodyCloseOut
    \/ BodyCloseIn
    \/ BodyRaise
    \/ BodyReturn
    \/ PeerClose
    \/ ExitOut
    \/ ExitIn
    \/ ExitSock

Spec == Init /\ [][Next]_vars

InitPath ==
    /\ InitConn("binary")
    /\ args \in [root : Roots, log : LogDirs]
    /\ fs = [dirs |-> {Cwd}, link |-> <<>>]
    /\ calls = <<>>

NextPath == Call \/ Mkdir \/ Symlink

SpecPath == InitPath /\ [][NextPath]_vars

(***************************************************************************)
(* Properties of connect and connect_in_text_mode, checked under Spec.     *)
(***************************************************************************)
AllClosed == fd = "released" /\ inCh = "closed" /\ outCh = "closed"
TeardownOrder == <<"output", "input", "socket">>
\* What the peer has observed, if everything before the unflushed tail and
\* nothing of the tail has reached it.
FlushedPart == SubSeq(written, 1, Len(written) - Len(tail))

\* C1: once the body of a connect that succeeded has been left, normally or
\* by an exception, the socket's handle is released by the time control (or
\* the error) reaches the caller of the with-block.
C1_ClosedOnEveryExit ==
    /\ (result # "none" /\ bodyRan) => AllClosed
    /\ (pc = "done") = (result # "none")

C1_Witness ==
    pc = "done" /\ bodyRan /\ result = "BodyError" /\ fd = "released"

\* C2: the OS handle is released exactly once per call: never while the body
\* runs (the socket stays open, and a stream is closed during the body only
\* if the body closed it), and never a second time afterwards.
C2_ReleasedExactlyOnce ==
    /\ releases <= 1
    /\ (fd = "released") = (releases = 1)
    /\ pc = "body" =>
          /\ fd = "open" /\ ~sockClosed
          /\ inCh = "open" \/ "in" \in bodyClosed
          /\ outCh = "open" \/ "out" \in bodyClosed
    /\ (pc = "done" /\ fd # "none") => releases = 1

C2_Witness ==
    pc = "done" /\ releases = 1 /\ bodyClosed = {"in", "out"} /\ mode = "binary"

C4_CloseFailureStillCloses ==
    (pc = "done" /\ closeFailed) => (AllClosed /\ closeOrder = TeardownOrder)

C4_Witness ==
    pc = "done" /\ closeFailed /\ fd = "released"

\* C5: when the body raised and a cleanup step then failed as well, the
\* error that reaches the caller is the body's error.
C5_BodyErrorNotMasked ==
    (pc = "done" /\ bodyRaised) => result = "BodyError"

\* C6: in text mode, a stream the body closed has its binary stream closed;
\* after the scope, both streams and the connection are closed on every
\* exit path; and leaving the scope after the body closed the output stream
\* raises nothing.
C6_TextScopeClosesAll ==
    mode = "text" =>
        /\ "out" \in bodyClosed => outCh = "closed"
        /\ "in" \in bodyClosed => inCh = "closed"
        /\ (pc = "done" /\ bodyRan) => (wrapped /\ AllClosed)
        /\ "out" \in bodyClosed => ~closeFailed
        /\ (pc = "done" /\ "out" \in bodyClosed /\ ~bodyRaised) => result = "ok"

C6_Witness ==
    /\ mode = "text" /\ pc = "done" /\ bodyClosed = {"in", "out"}
    /\ result = "ok" /\ fd = "released" /\ written # <<>>

\* C7 (as stated): while the body runs in text mode, the peer has observed
\* everything written up to the last write holding a newline (or the last
\* flush), and nothing written since.
C7_LineFlushOriginal ==
    (mode = "text" /\ pc = "body") => delivered = FlushedPart

\* C7 (amended): the same, as long as the text written since the last
\* newline or flush is shorter than the wrapper's chunk size.
C7_LineFlush ==
    (mode = "text" /\ pc = "body" /\ Len(tail) < ChunkSize) =>
        delivered = FlushedPart

C7_Witness ==
    /\ mode = "text" /\ pc = "body"
    /\ tail # <<>> /\ Len(tail) < ChunkSize
    /\ delivered # <<>> /\ delivered = FlushedPart

\* C9: teardown runs output stream, input stream, socket; after a body that
\* finished normally every byte it wrote to the binary output stream has
\* been handed to the socket while the socket was still open (and has
\* reached the peer unless that flush raised), flushed by the body or not.
C9_FlushedBeforeRelease ==
    /\ (pc = "done" /\ bodyRan) => closeOrder = TeardownOrder
    /\ pc = "exit_sock" => (fd = "open" /\ outCh # "open")
    /\ (pc \in {"exit_sock", "done"} /\ bodyRan /\ mode = "binary" /\ ~bodyRaised) =>
          /\ handed = written
          /\ ~closeFailed => delivered = written

C9_Witness ==
    /\ pc = "done" /\ mode = "binary" /\ ~bodyRaised /\ bodyClosed = {}
    /\ written # <<>> /\ tail = written /\ Len(written) <= BufSize
    /\ delivered = written

\* C10: in text mode, all text the body wrote before a normal scope exit has
\* reached the socket when the connection is closed.
C10_TextDeliveredAtExit ==
    (pc = "done" /\ mode = "text" /\ ~bodyRaised /\ ~closeFailed) =>
        delivered = written

(***************************************************************************)
(* Property of get_socket_path, checked under SpecPath.                    *)
(***************************************************************************)
\* C8: get_socket_path does not fail, on disk or not; its result is
\* root / "pyre_server_<digest>.sock" with the digest of the canonical form
\* of log_directory; creating directories alone does not change that form,
\* and calls that see the same canonical form return the same path.
C8_ExistenceTolerant ==
    \A i \in 1..Len(calls) :
        /\ calls[i].result.ok
        /\ calls[i].result.path =
             Append(args.root,
                    SocketName(HexDigest(Encode(PathStr(calls[i].canonical)))))
        /\ \A j \in 1..Len(calls) :
              /\ calls[i].link = calls[j].link =>
                    calls[i].canonical = calls[j].canonical
              /\ calls[i].canonical = calls[j].canonical =>
                    calls[i].result = calls[j].result

C8_Witness ==
    \E i, j \in 1..Len(calls) :
        /\ i < j
        /\ ~calls[i].onDisk /\ calls[j].onDisk
        /\ calls[i].result.ok /\ calls[i].result = calls[j].result

====
